---- MODULE Spec2Model ----
(***************************************************************************)
(* Typed field descriptors of canari.maltego.message: the value codecs,    *)
(* the descriptor get/set protocol, the EntityField schema composer and    *)
(* the Entity field collection.                                            *)
(*                                                                         *)
(* Text is modelled as a sequence of one-character strings, so that        *)
(* formatting and parsing are computed character by character.  Python     *)
(* values are records tagged by their type in the field t.                 *)
(***************************************************************************)
EXTENDS Integers, Sequences, FiniteSets, TLC

(***************************************************************************)
(* Characters and text                                                     *)
(***************************************************************************)
Digits == <<"0", "1", "2", "3", "4", "5", "6", "7", "8", "9">>

Lower == <<"a", "b", "c", "d", "e", "f", "g", "h", "i", "j", "k", "l", "m",
           "n", "o", "p", "q", "r", "s", "t", "u", "v", "w", "x", "y", "z">>

Upper == <<"A", "B", "C", "D", "E", "F", "G", "H", "I", "J", "K", "L", "M",
           "N", "O", "P", "Q", "R", "S", "T", "U", "V", "W", "X", "Y", "Z">>

Range(s) == {s[i] : i \in 1..Len(s)}

IndexOf(c, s) == CHOOSE i \in 1..Len(s) : s[i] = c

IsDigit(c) == c \in Range(Digits)

IsLower(c) == c \in Range(Lower)

IsUpper(c) == c \in Range(Upper)

IsHex(c) == IsDigit(c) \/ c \in {"a", "b", "c", "d", "e", "f", "A", "B", "C", "D", "E", "F"}

\* \w of the re module on a byte string: [a-zA-Z0-9_]
IsWord(c) == IsDigit(c) \/ IsLower(c) \/ IsUpper(c) \/ c = "_"

DigitVal(c) == IndexOf(c, Digits) - 1

ToUpper(c) == IF IsLower(c) THEN Upper[IndexOf(c, Lower)] ELSE c

ToLower(c) == IF IsUpper(c) THEN Lower[IndexOf(c, Upper)] ELSE c

AllDigits(s) == Len(s) > 0 /\ \A i \in 1..Len(s) : IsDigit(s[i])

RECURSIVE NatStr(_)
\* '%d' % n for n >= 0
NatStr(n) == IF n < 10 THEN <<Digits[n + 1]>>
             ELSE NatStr(n \div 10) \o <<Digits[(n % 10) + 1]>>

\* '%d' % n, str(n) of an int or long
IntStr(n) == IF n < 0 THEN <<"-">> \o NatStr(-n) ELSE NatStr(n)

RECURSIVE Zeros(_)
Zeros(k) == IF k <= 0 THEN <<>> ELSE <<"0">> \o Zeros(k - 1)

\* '%0<w>d' % n for n >= 0: w is a minimum width, longer numbers are not cut
Pad(n, w) == Zeros(w - Len(NatStr(n))) \o NatStr(n)

RECURSIVE DigitsVal(_)
\* int() of a non-empty run of digits
DigitsVal(s) == IF Len(s) = 0 THEN 0
                ELSE 10 * DigitsVal(SubSeq(s, 1, Len(s) - 1)) + DigitVal(s[Len(s)])

\* str.lower()
StrLower(s) == [i \in 1..Len(s) |-> ToLower(s[i])]

\* str.title(): a cased character is upper-cased when the character before it
\* is not cased, and lower-cased otherwise
IsCased(c) == IsLower(c) \/ IsUpper(c)

Title(s) == [i \in 1..Len(s) |->
               IF i > 1 /\ IsCased(s[i - 1]) THEN ToLower(s[i]) ELSE ToUpper(s[i])]

\* re.sub('[^\w]+', '_', s): every maximal run of non-word characters becomes "_"
RECURSIVE SubNonWord(_)
SubNonWord(s) ==
    IF Len(s) = 0 THEN <<>>
    ELSE IF IsWord(s[1]) THEN <<s[1]>> \o SubNonWord(Tail(s))
    ELSE IF Len(s) > 1 /\ ~IsWord(s[2]) THEN SubNonWord(Tail(s))
    ELSE <<"_">> \o SubNonWord(Tail(s))

\* the first position >= i of s that holds no digit (Len(s) + 1 when none)
RECURSIVE DigitsEnd(_, _)
DigitsEnd(s, i) == IF i > Len(s) \/ ~IsDigit(s[i]) THEN i ELSE DigitsEnd(s, i + 1)

\* whether s holds the literal lit at position i
HasAt(s, i, lit) == i + Len(lit) - 1 <= Len(s) /\ SubSeq(s, i, i + Len(lit) - 1) = lit

(***************************************************************************)
(* Python values                                                           *)
(***************************************************************************)
NoneV == [t |-> "none"]

StrV(s) == [t |-> "str", s |-> s]

\* int and long: Python 2 compares and prints them by value
IntV(n) == [t |-> "int", n |-> n]

\* the floats h/2: exactly representable, str() gives one fractional digit
FloatV(h) == [t |-> "float", h |-> h]

BoolV(b) == [t |-> "bool", b |-> b]

DateV(y, m, d) == [t |-> "date", y |-> y, m |-> m, d |-> d]

DateTimeV(y, m, d, H, M, S, us) ==
    [t |-> "datetime", y |-> y, m |-> m, d |-> d, H |-> H, M |-> M, S |-> S, us |-> us]

\* timedelta(days, seconds, microseconds) and its subclass timespan: the
\* constructor normalises to 0 <= seconds < 86400, 0 <= microseconds < 10^6
TimeDelta(cls, days, seconds, useconds) ==
    LET s2 == seconds + (useconds \div 1000000)
    IN  [t |-> cls, days |-> days + (s2 \div 86400), seconds |-> s2 % 86400,
         microseconds |-> useconds % 1000000]

\* an exception raised instead of a value
ErrV(e) == [t |-> "error", e |-> e]

\* isinstance(val, basestring)
IsBaseString(v) == v.t = "str"

\* isinstance(val, Number): bool is a subclass of int
IsNumber(v) == v.t \in {"int", "float", "bool"}

\* isinstance(val, bool)
IsBool(v) == v.t = "bool"

\* isinstance(val, date): datetime is a subclass of date
IsDate(v) == v.t \in {"date", "datetime"}

\* isinstance(val, datetime)
IsDateTime(v) == v.t = "datetime"

\* isinstance(val, timedelta): timespan is a subclass of timedelta
IsTimeDelta(v) == v.t \in {"timedelta", "timespan"}

\* isinstance(val, timespan)
IsTimeSpan(v) == v.t = "timespan"

IsLeap(y) == (y % 4 = 0 /\ y % 100 # 0) \/ y % 400 = 0

DaysInMonth(y, m) == IF m = 2 THEN (IF IsLeap(y) THEN 29 ELSE 28)
                     ELSE IF m \in {4, 6, 9, 11} THEN 30 ELSE 31

\* str() of a float h/2
FloatStr(h) == LET a == IF h < 0 THEN -h ELSE h
               IN  (IF h < 0 THEN <<"-">> ELSE <<>>) \o NatStr(a \div 2) \o <<".">>
                   \o (IF a % 2 = 1 THEN <<"5">> ELSE <<"0">>)

\* date.__str__: isoformat()
DateStr(v) == Pad(v.y, 4) \o <<"-">> \o Pad(v.m, 2) \o <<"-">> \o Pad(v.d, 2)

\* datetime.__str__: isoformat(sep=' '), the fraction is written only when
\* the microsecond is not 0
DateTimeStr(v) ==
    DateStr(v) \o <<" ">> \o Pad(v.H, 2) \o <<":">> \o Pad(v.M, 2) \o <<":">> \o Pad(v.S, 2)
    \o (IF v.us # 0 THEN <<".">> \o Pad(v.us, 6) ELSE <<>>)

\* timedelta.__str__: '[D day[s], ]H:MM:SS[.ffffff]'
TimeDeltaStr(v) ==
    LET absd == IF v.days < 0 THEN -v.days ELSE v.days
    IN  (IF v.days # 0
         THEN IntStr(v.days) \o <<" ", "d", "a", "y">>
              \o (IF absd # 1 THEN <<"s">> ELSE <<>>) \o <<",", " ">>
         ELSE <<>>)
        \o NatStr(v.seconds \div 3600) \o <<":">> \o Pad((v.seconds % 3600) \div 60, 2)
        \o <<":">> \o Pad(v.seconds % 60, 2)
        \o (IF v.microseconds # 0 THEN <<".">> \o Pad(v.microseconds, 6) ELSE <<>>)

\* timespan.__str__: '%dd %dh%dm%d.%03ds'
TimeSpanStr(v) ==
    NatStr(IF v.days < 0 THEN -v.days ELSE v.days) \o <<"d", " ">>
    \o NatStr(v.seconds \div 3600) \o <<"h">>
    \o NatStr((v.seconds % 3600) \div 60) \o <<"m">>
    \o NatStr(v.seconds % 60) \o <<".">>
    \o Pad(v.microseconds, 3) \o <<"s">>

\* str(val)
PyStr(v) ==
    CASE v.t = "none" -> <<"N", "o", "n", "e">>
      [] v.t = "str" -> v.s
      [] v.t = "int" -> IntStr(v.n)
      [] v.t = "float" -> FloatStr(v.h)
      [] v.t = "bool" -> IF v.b THEN <<"T", "r", "u", "e">> ELSE <<"F", "a", "l", "s", "e">>
      [] v.t = "date" -> DateStr(v)
      [] v.t = "datetime" -> DateTimeStr(v)
      [] v.t = "timedelta" -> TimeDeltaStr(v)
      [] v.t = "timespan" -> TimeSpanStr(v)

\* val if it is a string, str(val) otherwise
Stringify(v) == IF IsBaseString(v) THEN v ELSE StrV(PyStr(v))

(***************************************************************************)
(* Parsing                                                                 *)
(***************************************************************************)
RECURSIVE Strip(_)
\* str.strip() for blanks
Strip(s) == IF Len(s) > 0 /\ s[1] = " " THEN Strip(Tail(s))
            ELSE IF Len(s) > 0 /\ s[Len(s)] = " " THEN Strip(SubSeq(s, 1, Len(s) - 1))
            ELSE s

\* int(text), long(text): blanks around, an optional sign, digits
ParseInt(text) ==
    LET s == Strip(text)
        signed == Len(s) > 0 /\ s[1] \in {"-", "+"}
        body == IF signed THEN Tail(s) ELSE s
    IN  IF ~AllDigits(body) THEN ErrV("ValueError")
        ELSE IF signed /\ s[1] = "-" THEN IntV(-DigitsVal(body))
        ELSE IntV(DigitsVal(body))

\* float(text) for the decimal literals whose value is a multiple of 1/2;
\* any other well-formed literal is reported as an inexact float
ParseFloat(text) ==
    LET s == Strip(text)
        signed == Len(s) > 0 /\ s[1] \in {"-", "+"}
        body == IF signed THEN Tail(s) ELSE s
        e == DigitsEnd(body, 1)
        ip == SubSeq(body, 1, e - 1)
        fp == IF e <= Len(body) THEN SubSeq(body, e + 1, Len(body)) ELSE <<>>
        wellformed == /\ Len(body) > 0
                      /\ (e > Len(body) \/ body[e] = ".")
                      /\ (Len(ip) > 0 \/ Len(fp) > 0)
                      /\ \A i \in 1..Len(fp) : IsDigit(fp[i])
        half == Len(fp) > 0 /\ fp[1] = "5"
        exact == \A i \in 1..Len(fp) : fp[i] = "0" \/ (i = 1 /\ fp[i] = "5")
        mag == 2 * DigitsVal(ip) + (IF half THEN 1 ELSE 0)
    IN  IF ~wellformed THEN ErrV("ValueError")
        ELSE IF ~exact THEN [t |-> "float_inexact", s |-> s]
        ELSE IF signed /\ s[1] = "-" THEN FloatV(-mag) ELSE FloatV(mag)

\* A pattern is a sequence of items: a literal, or a run of lo..hi digits
\* (hi = 0: no upper limit).  The run is the maximal one: every run of the
\* patterns below is followed by a literal that is no digit.
Lit(s) == [k |-> "lit", s |-> s, lo |-> 0, hi |-> 0]

Num(lo, hi) == [k |-> "num", s |-> <<>>, lo |-> lo, hi |-> hi]

RECURSIVE MatchPat(_, _, _, _)
\* the groups of the match of pat at position i of s, and where it ends
MatchPat(s, i, pat, groups) ==
    IF Len(pat) = 0 THEN [ok |-> TRUE, groups |-> groups, end |-> i]
    ELSE LET it == pat[1]
         IN  IF it.k = "lit"
             THEN IF HasAt(s, i, it.s) THEN MatchPat(s, i + Len(it.s), Tail(pat), groups)
                  ELSE [ok |-> FALSE, groups |-> <<>>, end |-> i]
             ELSE LET e == DigitsEnd(s, i)
                      n == e - i
                  IN  IF n >= it.lo /\ n >= 1 /\ (it.hi = 0 \/ n <= it.hi)
                      THEN MatchPat(s, e, Tail(pat), Append(groups, SubSeq(s, i, e - 1)))
                      ELSE [ok |-> FALSE, groups |-> <<>>, end |-> i]

\* '%Y-%m-%d'
DatePattern == <<Num(4, 4), Lit(<<"-">>), Num(1, 2), Lit(<<"-">>), Num(1, 2)>>

\* '%Y-%m-%d %H:%M:%S.%f'
DateTimePattern ==
    DatePattern \o <<Lit(<<" ">>), Num(1, 2), Lit(<<":">>), Num(1, 2), Lit(<<":">>), Num(1, 2),
                     Lit(<<".">>), Num(1, 6)>>

\* timespan.matcher: '(\d+)d (\d+)h(\d+)m(\d+)\.(\d+)s'
matcher == <<Num(1, 0), Lit(<<"d", " ">>), Num(1, 0), Lit(<<"h">>), Num(1, 0), Lit(<<"m">>),
             Num(1, 0), Lit(<<".">>), Num(1, 0), Lit(<<"s">>)>>

ValidDate(y, m, d) == y >= 1 /\ m \in 1..12 /\ d >= 1 /\ d <= DaysInMonth(y, m)

\* datetime.strptime(text, '%Y-%m-%d').date(): the whole text must match
StrpDate(text) ==
    LET r == MatchPat(text, 1, DatePattern, <<>>)
    IN  IF ~r.ok \/ r.end # Len(text) + 1 THEN ErrV("ValueError")
        ELSE LET y == DigitsVal(r.groups[1])
                 m == DigitsVal(r.groups[2])
                 d == DigitsVal(r.groups[3])
             IN  IF ValidDate(y, m, d) THEN DateV(y, m, d) ELSE ErrV("ValueError")

\* datetime.strptime(text, '%Y-%m-%d %H:%M:%S.%f'): the fraction is required,
\* and is read as the leading digits of the microsecond
StrpDateTime(text) ==
    LET r == MatchPat(text, 1, DateTimePattern, <<>>)
    IN  IF ~r.ok \/ r.end # Len(text) + 1 THEN ErrV("ValueError")
        ELSE LET y == DigitsVal(r.groups[1])
                 m == DigitsVal(r.groups[2])
                 d == DigitsVal(r.groups[3])
                 H == DigitsVal(r.groups[4])
                 M == DigitsVal(r.groups[5])
                 S == DigitsVal(r.groups[6])
                 us == DigitsVal(r.groups[7] \o Zeros(6 - Len(r.groups[7])))
             IN  IF ValidDate(y, m, d) /\ H <= 23 /\ M <= 59 /\ S <= 59
                 THEN DateTimeV(y, m, d, H, M, S, us) ELSE ErrV("ValueError")

\* timespan.fromstring(ts): match() anchors the start of the text only
fromstring(ts) ==
    LET r == MatchPat(ts, 1, matcher, <<>>)
    IN  IF ~r.ok THEN ErrV("ValueError")
        ELSE LET days == DigitsVal(r.groups[1])
                 hours == DigitsVal(r.groups[2])
                 minutes == DigitsVal(r.groups[3])
                 seconds == DigitsVal(r.groups[4])
                 useconds == DigitsVal(r.groups[5])
             IN  TimeDelta("timespan", days, (hours * 3600) + (minutes * 60) + seconds, useconds)

\* match('.*', val) is not None
MatchAny(s) == TRUE

\* match('^#[0-9a-fA-F]{6}$', val) is not None: $ also matches before a final newline
MatchColor(s) ==
    /\ Len(s) \in {7, 8}
    /\ s[1] = "#"
    /\ \A i \in 2..7 : IsHex(s[i])
    /\ (Len(s) = 8 => s[8] = "\n")

(***************************************************************************)
(* Field, and the owner's child collections                                *)
(***************************************************************************)
Strict == "strict"

Loose == "loose"

\* Field(name, value, displayname=..., matchingrule=...): id is the identity
\* of the new object
Field(id, name, value, displayname, matchingrule) ==
    [k |-> "Field", id |-> id, name |-> name, matchingrule |-> matchingrule,
     displayname |-> displayname, text |-> Stringify(value).s]

\* Label(name, value): only its kind and identity matter to the field collection
Label(id) == [k |-> "Label", id |-> id]

\* list += child: the child goes to the end of the ordered collection
ListAppend(list, child) == Append(list, child)

\* list -= child: the child (the object itself) leaves the collection; a
\* child that is not in it leaves the collection as it is
ListRemove(list, child) ==
    LET at == {i \in 1..Len(list) : list[i].id = child.id}
    IN  IF at = {} THEN list
        ELSE LET i == CHOOSE x \in at : \A y \in at : x <= y
             IN  SubSeq(list, 1, i - 1) \o SubSeq(list, i + 1, Len(list))

\* Entity.appendelement(other)
appendelement(obj, other) ==
    IF other.k = "Field" THEN [obj EXCEPT !.fields = ListAppend(obj.fields, other)]
    ELSE IF other.k = "Label" THEN [obj EXCEPT !.labels = ListAppend(obj.labels, other)]
    ELSE obj

\* Entity.removeelement(other)
removeelement(obj, other) ==
    IF other.k = "Field" THEN [obj EXCEPT !.fields = ListRemove(obj.fields, other)]
    ELSE IF other.k = "Label" THEN [obj EXCEPT !.labels = ListRemove(obj.labels, other)]
    ELSE obj

RECURSIVE appendelements(_, _)
\* appendelements(others): each element of the list in turn, nothing for None
appendelements(obj, others) ==
    IF others = <<>> THEN obj
    ELSE appendelements(appendelement(obj, Head(others)), Tail(others))

(***************************************************************************)
(* Field descriptors                                                       *)
(***************************************************************************)
\* StringEntityField.__init__ (choices: EnumEntityField only)
Descriptor(kind, name, displayname, choices, decorator, matchingrule) ==
    [kind |-> kind, name |-> name, displayname |-> displayname, choices |-> choices,
     decorator |-> decorator, matchingrule |-> matchingrule]

\* StringEntityField._find: the position of the first Field of that name, 0 for None
_find(self, obj) ==
    LET at == {i \in 1..Len(obj.fields) : obj.fields[i].name = self.name}
    IN  IF at = {} THEN 0 ELSE CHOOSE x \in at : \A y \in at : x <= y

\* the outcome of a __set__: the owner, the identity counter, the exception
\* raised ("none" when the call returns) and the calls made to the decorator
SetRet(obj, nid, raised, hooks) ==
    [obj |-> obj, nextId |-> nid, raised |-> raised, hooks |-> hooks]

Raise(obj, nid, e) == SetRet(obj, nid, e, <<>>)

\* self.decorator(obj, val), when a decorator is bound
Decorate(self, obj, val) ==
    IF self.decorator THEN <<[val |-> val, seen |-> obj]>> ELSE <<>>

\* StringEntityField.__set__ with the decorator given the caller's value
\* instead of its text
StringSetRawHook(self, obj, nid, val0) ==
    LET f == _find(self, obj)
        val == IF ~IsBaseString(val0) /\ val0 # NoneV THEN StrV(PyStr(val0)) ELSE val0
    IN  IF f = 0 /\ val # NoneV
        THEN LET o2 == appendelement(obj, Field(nid, self.name, val, self.displayname,
                                                self.matchingrule))
             IN  SetRet(o2, nid + 1, "none", Decorate(self, o2, val0))
        ELSE IF f # 0 /\ val = NoneV
        THEN LET o2 == removeelement(obj, obj.fields[f])
             IN  SetRet(o2, nid, "none", Decorate(self, o2, val0))
        ELSE IF f = 0
        THEN Raise(obj, nid, "AttributeError")
        ELSE LET o2 == [obj EXCEPT !.fields[f].text = val.s]
             IN  SetRet(o2, nid, "none", Decorate(self, o2, val0))

\* StringEntityField.__set__ that creates a Field for every present value,
\* without looking for one of that name
StringSetAlwaysCreate(self, obj, nid, val0) ==
    LET f == _find(self, obj)
        val == IF ~IsBaseString(val0) /\ val0 # NoneV THEN StrV(PyStr(val0)) ELSE val0
    IN  IF val # NoneV
        THEN LET o2 == appendelement(obj, Field(nid, self.name, val, self.displayname,
                                                self.matchingrule))
             IN  SetRet(o2, nid + 1, "none", Decorate(self, o2, val))
        ELSE IF f # 0
        THEN LET o2 == removeelement(obj, obj.fields[f])
             IN  SetRet(o2, nid, "none", Decorate(self, o2, val))
        ELSE Raise(obj, nid, "AttributeError")

\* StringEntityField.__set__ that replaces the Field it updates by a new one
StringSetRecreate(self, obj, nid, val0) ==
    LET f == _find(self, obj)
        val == IF ~IsBaseString(val0) /\ val0 # NoneV THEN StrV(PyStr(val0)) ELSE val0
    IN  IF f = 0 /\ val # NoneV
        THEN LET o2 == appendelement(obj, Field(nid, self.name, val, self.displayname,
                                                self.matchingrule))
             IN  SetRet(o2, nid + 1, "none", Decorate(self, o2, val))
        ELSE IF f # 0 /\ val = NoneV
        THEN LET o2 == removeelement(obj, obj.fields[f])
             IN  SetRet(o2, nid, "none", Decorate(self, o2, val))
        ELSE IF f = 0
        THEN Raise(obj, nid, "AttributeError")
        ELSE LET o2 == appendelement(removeelement(obj, obj.fields[f]),
                                     Field(nid, self.name, val, self.displayname,
                                           self.matchingrule))
             IN  SetRet(o2, nid + 1, "none", Decorate(self, o2, val))

\* StringEntityField.__set__ that puts a new Field in front of the others
StringSetPrepend(self, obj, nid, val0) ==
    LET f == _find(self, obj)
        val == IF ~IsBaseString(val0) /\ val0 # NoneV THEN StrV(PyStr(val0)) ELSE val0
    IN  IF f = 0 /\ val # NoneV
        THEN LET o2 == [obj EXCEPT !.fields =
                            <<Field(nid, self.name, val, self.displayname,
                                    self.matchingrule)>> \o @]
             IN  SetRet(o2, nid + 1, "none", Decorate(self, o2, val))
        ELSE IF f # 0 /\ val = NoneV
        THEN LET o2 == removeelement(obj, obj.fields[f])
             IN  SetRet(o2, nid, "none", Decorate(self, o2, val))
        ELSE IF f = 0
        THEN Raise(obj, nid, "AttributeError")
        ELSE LET o2 == [obj EXCEPT !.fields[f].text = val.s]
             IN  SetRet(o2, nid, "none", Decorate(self, o2, val))

\* StringEntityField.__set__
StringSet(self, obj, nid, val0) ==
    LET f == _find(self, obj)
        val == IF ~IsBaseString(val0) /\ val0 # NoneV THEN StrV(PyStr(val0)) ELSE val0
    IN  IF f = 0 /\ val # NoneV
        THEN LET o2 == appendelement(obj, Field(nid, self.name, val, self.displayname,
                                                self.matchingrule))
             IN  SetRet(o2, nid + 1, "none", Decorate(self, o2, val))
        ELSE IF f # 0 /\ val = NoneV
        THEN LET o2 == removeelement(obj, obj.fields[f])
             IN  SetRet(o2, nid, "none", Decorate(self, o2, val))
        ELSE IF f = 0
        THEN Raise(obj, nid, "AttributeError")
        ELSE LET o2 == [obj EXCEPT !.fields[f].text = val.s]
             IN  SetRet(o2, nid, "none", Decorate(self, o2, val))

\* StringEntityField.__get__
StringGet(self, obj) ==
    LET o == _find(self, obj)
    IN  IF o # 0 THEN StrV(obj.fields[o].text) ELSE NoneV

\* EnumEntityField.__set__ that writes before it checks the choices
EnumSetWriteFirst(self, obj, nid, val0) ==
    LET val == Stringify(val0)
        r == StringSet(self, obj, nid, val)
    IN  IF val.s \notin Range(self.choices) THEN [r EXCEPT !.raised = "ValueError"]
        ELSE r

\* EnumEntityField.__set__
EnumSet(self, obj, nid, val0) ==
    LET val == Stringify(val0)
    IN  IF val.s \notin Range(self.choices) THEN Raise(obj, nid, "ValueError")
        ELSE StringSet(self, obj, nid, val)

\* IntegerEntityField.__set__
IntegerSet(self, obj, nid, val) ==
    IF ~IsNumber(val) THEN Raise(obj, nid, "TypeError")
    ELSE StringSet(self, obj, nid, val)

\* IntegerEntityField.__get__
IntegerGet(self, obj) ==
    LET i == StringGet(self, obj)
    IN  IF i # NoneV THEN ParseInt(i.s) ELSE NoneV

\* BooleanEntityField.__set__ that writes str(val) as it is
BooleanSetNoLower(self, obj, nid, val) ==
    IF ~IsBool(val) THEN Raise(obj, nid, "TypeError")
    ELSE StringSet(self, obj, nid, StrV(PyStr(val)))

\* BooleanEntityField.__set__
BooleanSet(self, obj, nid, val) ==
    IF ~IsBool(val) THEN Raise(obj, nid, "TypeError")
    ELSE StringSet(self, obj, nid, StrV(StrLower(PyStr(val))))

\* BooleanEntityField.__get__
BooleanGet(self, obj) ==
    LET b == StringGet(self, obj)
    IN  IF b # NoneV THEN BoolV(b.s = <<"t", "r", "u", "e">>) ELSE NoneV

\* FloatEntityField.__set__
FloatSet(self, obj, nid, val) ==
    IF ~IsNumber(val) THEN Raise(obj, nid, "TypeError")
    ELSE StringSet(self, obj, nid, val)

\* FloatEntityField.__get__
FloatGet(self, obj) ==
    LET f == StringGet(self, obj)
    IN  IF f # NoneV THEN ParseFloat(f.s) ELSE NoneV

\* LongEntityField.__set__
LongSet(self, obj, nid, val) ==
    IF ~IsNumber(val) THEN Raise(obj, nid, "TypeError")
    ELSE StringSet(self, obj, nid, val)

\* LongEntityField.__get__
LongGet(self, obj) ==
    LET l == StringGet(self, obj)
    IN  IF l # NoneV THEN ParseInt(l.s) ELSE NoneV

\* DateTimeEntityField.__set__
DateTimeSet(self, obj, nid, val) ==
    IF ~IsDateTime(val) THEN Raise(obj, nid, "TypeError")
    ELSE StringSet(self, obj, nid, val)

\* DateTimeEntityField.__get__
DateTimeGet(self, obj) ==
    LET d == StringGet(self, obj)
    IN  IF d # NoneV THEN StrpDateTime(d.s) ELSE NoneV

\* DateEntityField.__set__
DateSet(self, obj, nid, val) ==
    IF ~IsDate(val) THEN Raise(obj, nid, "TypeError")
    ELSE StringSet(self, obj, nid, val)

\* DateEntityField.__get__
DateGet(self, obj) ==
    LET d == StringGet(self, obj)
    IN  IF d # NoneV THEN StrpDate(d.s) ELSE NoneV

\* TimeSpanEntityField.__set__: a plain timedelta fails the first test, so
\* the conversion to timespan below it is never reached
TimeSpanSet(self, obj, nid, val) ==
    IF ~IsTimeSpan(val) \/ ~IsTimeDelta(val) THEN Raise(obj, nid, "TypeError")
    ELSE LET v2 == IF val.t = "timedelta"
                   THEN TimeDelta("timespan", val.days, val.seconds, val.microseconds)
                   ELSE val
         IN  StringSet(self, obj, nid, v2)

\* TimeSpanEntityField.__get__
TimeSpanGet(self, obj) ==
    LET d == StringGet(self, obj)
    IN  IF d # NoneV THEN fromstring(d.s) ELSE NoneV

\* RegexEntityField.pattern, ColorEntityField.pattern
PatternMatch(self, s) == IF self.kind = "Color" THEN MatchColor(s) ELSE MatchAny(s)

\* RegexEntityField.__set__ (ColorEntityField inherits it)
RegexSet(self, obj, nid, val0) ==
    LET val == IF ~IsBaseString(val0) THEN StrV(PyStr(val0)) ELSE val0
    IN  IF ~PatternMatch(self, val.s) THEN Raise(obj, nid, "ValueError")
        ELSE StringSet(self, obj, nid, val)

\* descriptor.__set__(obj, val), by the descriptor's class
DescSet(self, obj, nid, val) ==
    CASE self.kind = "String" -> StringSet(self, obj, nid, val)
      [] self.kind = "Enum" -> EnumSet(self, obj, nid, val)
      [] self.kind = "Integer" -> IntegerSet(self, obj, nid, val)
      [] self.kind = "Long" -> LongSet(self, obj, nid, val)
      [] self.kind = "Float" -> FloatSet(self, obj, nid, val)
      [] self.kind = "Bool" -> BooleanSet(self, obj, nid, val)
      [] self.kind = "Date" -> DateSet(self, obj, nid, val)
      [] self.kind = "DateTime" -> DateTimeSet(self, obj, nid, val)
      [] self.kind = "TimeSpan" -> TimeSpanSet(self, obj, nid, val)
      [] self.kind \in {"Regex", "Color"} -> RegexSet(self, obj, nid, val)

\* descriptor.__get__(obj, objtype), by the descriptor's class
DescGet(self, obj) ==
    CASE self.kind \in {"String", "Enum", "Regex", "Color"} -> StringGet(self, obj)
      [] self.kind = "Integer" -> IntegerGet(self, obj)
      [] self.kind = "Long" -> LongGet(self, obj)
      [] self.kind = "Float" -> FloatGet(self, obj)
      [] self.kind = "Bool" -> BooleanGet(self, obj)
      [] self.kind = "Date" -> DateGet(self, obj)
      [] self.kind = "DateTime" -> DateTimeGet(self, obj)
      [] self.kind = "TimeSpan" -> TimeSpanGet(self, obj)

(***************************************************************************)
(* The schema composer: EntityField, EntityLinkField                       *)
(***************************************************************************)
\* the keyword arguments of a declaration: given is the set of the keys passed
Kwargs(given, name, propname, displayname, type, choices, matchingrule, decorator) ==
    [given |-> given, name |-> name, propname |-> propname, displayname |-> displayname,
     type |-> type, choices |-> choices, matchingrule |-> matchingrule,
     decorator |-> decorator]

\* kwargs.get(key, default)
KwGet(kwargs, key, default) == IF key \in kwargs.given THEN kwargs[key] ELSE default

\* EnumEntityField.__init__: the choices, each as a string
StrChoices(choices) == [i \in 1..Len(choices) |-> Stringify(choices[i]).s]

\* EntityField.__init__(link, **kwargs): the exception raised ("none" when
\* the declaration is built) and the declaration
EntityFieldInit(link, kwargs) ==
    LET name == KwGet(kwargs, "name", NoneV)
    IN  IF name = NoneV THEN [raised |-> "ValueError", self |-> NoneV]
        ELSE [raised |-> "none",
              self |-> [t |-> "EntityField",
                        name |-> name.s,
                        property |-> KwGet(kwargs, "propname", StrV(SubNonWord(name.s))).s,
                        displayname |-> IF ~link
                                        THEN KwGet(kwargs, "displayname", StrV(Title(name.s)))
                                        ELSE KwGet(kwargs, "displayname", NoneV),
                        type |-> KwGet(kwargs, "type", "String"),
                        choices |-> KwGet(kwargs, "choices", <<>>),
                        matchingrule |-> KwGet(kwargs, "matchingrule", Strict),
                        decorator |-> KwGet(kwargs, "decorator", FALSE)]]

\* EntityLinkField.__init__(**kwargs): kwargs['name'] = 'link#%s' % kwargs.get('name')
EntityLinkFieldInit(kwargs) ==
    EntityFieldInit(TRUE, [kwargs EXCEPT
        !.given = @ \cup {"name"},
        !.name = StrV(<<"l", "i", "n", "k", "#">> \o PyStr(KwGet(kwargs, "name", NoneV)))])

\* setattr(cls, property, descriptor)
SetAttr(cls, property, desc) ==
    [p \in DOMAIN cls \cup {property} |-> IF p = property THEN desc ELSE cls[p]]

\* EntityField.__call__(cls)
EntityFieldCall(self, cls) ==
    IF self.type = "Enum"
    THEN SetAttr(cls, self.property,
                 Descriptor(self.type, self.name, self.displayname, StrChoices(self.choices),
                            self.decorator, self.matchingrule))
    ELSE SetAttr(cls, self.property,
                 Descriptor(self.type, self.name, self.displayname, <<>>,
                            self.decorator, self.matchingrule))

(***************************************************************************)
(* Entity                                                                  *)
(***************************************************************************)
\* hasattr(self, p): the attribute exists and reading it raises nothing
HasAttr(cls, obj, p) == p \in DOMAIN cls /\ DescGet(cls[p], obj).t # "error"

RECURSIVE ApplyOverrides(_, _, _)
\* Entity.__init__, the loop over the remaining keyword arguments
ApplyOverrides(cls, r, kw) ==
    IF kw = <<>> \/ r.raised # "none" THEN r
    ELSE LET p == Head(kw).p
         IN  IF HasAttr(cls, r.obj, p)
             THEN ApplyOverrides(cls, DescSet(cls[p], r.obj, r.nextId, Head(kw).val), Tail(kw))
             ELSE ApplyOverrides(cls, r, Tail(kw))

\* Entity.__init__(value, fields=fs, labels=ls, **kw): the children collections
\* of the new instance
EntityInit(cls, fs, ls, nid, kw) ==
    LET o1 == appendelements([fields |-> <<>>, labels |-> <<>>], fs)
        o2 == appendelements(o1, ls)
    IN  ApplyOverrides(cls, SetRet(o2, nid, "none", <<>>), kw)

(***************************************************************************)
(* Bounds                                                                  *)
(***************************************************************************)
\* the number of Field and Label objects created in one behaviour
MaxNodes == 2

\* the largest magnitude of the integers given to the codecs
MaxInt == 3

\* the largest number of days of the durations given to the codecs
MaxDays == 1

(***************************************************************************)
(* The declarations and the values the model draws from                    *)
(***************************************************************************)
Decl(form, link, kwargs) == [form |-> form, link |-> link, kwargs |-> kwargs]

\* @EntityField(name=..., type=..., ...) with the keywords in given
EF(given, name, propname, type, choices, decorator) ==
    Decl("EntityField", FALSE,
         Kwargs(given, StrV(name), StrV(propname), NoneV, type, choices, Loose, decorator))

\* @EntityLinkField(name=..., propname=..., matchingrule=MatchingRule.Loose, ...)
ELF(given, name, propname, type, choices) ==
    Decl("EntityLinkField", FALSE,
         Kwargs(given \cup {"matchingrule"}, StrV(name), StrV(propname), NoneV, type, choices,
                Loose, FALSE))

\* strings and an enumeration; the third declaration names the accessor of the first
ClassText ==
    <<EF({"name", "decorator"}, <<"s">>, <<>>, "String", <<>>, TRUE),
      EF({"name", "type", "choices"}, <<"e">>, <<>>, "Enum", <<IntV(0), IntV(1)>>, FALSE),
      EF({"name", "propname"}, <<"t">>, <<"s">>, "String", <<>>, FALSE),
      Decl("EntityField", TRUE,
           Kwargs({"name", "propname", "matchingrule"}, StrV(<<"n", "#">>), StrV(<<"n">>),
                  NoneV, "String", <<>>, Loose, FALSE))>>

\* numbers and booleans
ClassNumber ==
    <<EF({"name", "type", "decorator"}, <<"i">>, <<>>, "Integer", <<>>, TRUE),
      EF({"name", "type"}, <<"l">>, <<>>, "Long", <<>>, FALSE),
      EF({"name", "type"}, <<"f">>, <<>>, "Float", <<>>, FALSE),
      EF({"name", "type", "decorator"}, <<"b">>, <<>>, "Bool", <<>>, TRUE)>>

\* dates, durations and patterns
ClassTime ==
    <<EF({"name", "type"}, <<"d">>, <<>>, "Date", <<>>, FALSE),
      EF({"name", "type", "propname"}, <<"d", ".", "t">>, <<"d", "t">>, "DateTime", <<>>, FALSE),
      EF({"name", "type"}, <<"t", "s">>, <<>>, "TimeSpan", <<>>, FALSE),
      EF({"name", "type"}, <<"c">>, <<>>, "Color", <<>>, FALSE),
      EF({"name", "type"}, <<"r">>, <<>>, "Regex", <<>>, FALSE)>>

\* link fields, one of them declared without a name
ClassLink ==
    <<ELF({"name", "propname"}, <<"x">>, <<"l", "x">>, "String", <<>>),
      ELF({"name", "type", "choices"}, <<"e">>, <<>>, "Enum", <<IntV(0), IntV(1)>>),
      ELF({"propname"}, <<>>, <<"l", "n">>, "String", <<>>),
      ELF({"type"}, <<>>, <<>>, "Integer", <<>>)>>

\* a plain field declared without a name
ClassNameless ==
    <<EF({"name"}, <<"s">>, <<>>, "String", <<>>, FALSE),
      EF({"propname"}, <<>>, <<"p">>, "String", <<>>, FALSE),
      EF({"name", "type"}, <<"i">>, <<>>, "Integer", <<>>, FALSE)>>

Reverse(s) == [i \in 1..Len(s) |-> s[Len(s) + 1 - i]]

Classes == {ClassText, ClassNumber, ClassTime, ClassLink, ClassNameless}

\* the stacks of declarations, each class as written and in the opposite order
Stacks == Classes \cup {Reverse(c) : c \in Classes}

LeapDay == DateV(2020, 2, 29)

WireSpan == <<"1", "d", " ", "2", "h", "3", "m", "4", ".", "0", "0", "5", "s">>

\* the values given to the accessor of a descriptor, by its kind: absent,
\* values the kind accepts, and a value it must reject
Inputs(kind) ==
    CASE kind = "String" -> {NoneV, StrV(<<"x">>), IntV(7)}
      [] kind = "Enum" -> {NoneV, IntV(0), StrV(<<"1">>), StrV(<<"x">>)}
      [] kind = "Integer" -> {NoneV, IntV(0), IntV(-12), StrV(<<"7">>)}
      [] kind = "Long" -> {NoneV, IntV(12), StrV(<<"7">>)}
      [] kind = "Float" -> {NoneV, FloatV(3), IntV(2), StrV(<<"x">>)}
      [] kind = "Bool" -> {NoneV, BoolV(TRUE), BoolV(FALSE), IntV(1)}
      [] kind = "Date" -> {NoneV, LeapDay, StrV(DateStr(LeapDay))}
      [] kind = "DateTime" -> {NoneV, DateTimeV(2020, 2, 29, 23, 59, 59, 999999),
                               DateTimeV(2021, 1, 1, 0, 0, 0, 0), LeapDay}
      [] kind = "TimeSpan" -> {NoneV, TimeDelta("timespan", 1, 7384, 5000),
                               TimeDelta("timedelta", 0, 1, 0), IntV(5)}
      [] kind = "Regex" -> {NoneV, StrV(<<"x">>)}
      [] kind = "Color" -> {NoneV, StrV(<<"#", "1", "a", "2", "b", "3", "c">>),
                            StrV(<<"r", "e", "d">>)}

\* the Fields a caller builds and appends: (name, value) pairs
CallerFields == {<<(<<"s">>), StrV(<<"w">>)>>,
                 <<(<<"i">>), StrV(<<"x">>)>>}

\* Field(name, value) as a caller builds it: displayname None, matchingrule Strict
NewField(id, nv) == Field(id, nv[1], nv[2], NoneV, Strict)

\* the fields keyword of the constructor: none, one Field, two Fields of one name
InitFields == {<<>>,
               <<NewField(1, <<(<<"s">>), StrV(<<"w">>)>>)>>,
               <<NewField(1, <<(<<"s">>), StrV(<<"w">>)>>),
                 NewField(2, <<(<<"s">>), IntV(5)>>)>>}

(***************************************************************************)
(* State                                                                   *)
(***************************************************************************)
VARIABLES
    pc,      \* "define": the class body is being decorated; "live": an instance exists;
             \* "aborted": a declaration or the constructor raised
    stack,   \* the declarations not applied yet, as written (the last is applied first)
    cls,     \* the class: accessor name -> descriptor
    obj,     \* the instance: its fields and labels, in order
    nextId,  \* the identity of the next object created
    fresh,   \* every Field of the instance was created by a descriptor's __set__
    last,    \* the last operation: its arguments and what it did
    arg      \* the value under test of the codec runs

vars == <<pc, stack, cls, obj, nextId, fresh, last, arg>>

\* the last operation: which, through which accessor, with which value, the
\* exception it raised ("none": it returned), what it did to the fields, the
\* calls it made to the decorator, and what it returned
Op(op, acc, val, raised, outcome, hooks, result) ==
    [op |-> op, acc |-> acc, val |-> val, raised |-> raised, outcome |-> outcome,
     hooks |-> hooks, result |-> result]

NoOp == Op("none", <<>>, NoneV, "none", "none", <<>>, NoneV)

EmptyObj == [fields |-> <<>>, labels |-> <<>>]

Init ==
    /\ pc = "define"
    /\ stack \in Stacks
    /\ cls = <<>>
    /\ obj = EmptyObj
    /\ nextId = 1
    /\ fresh = TRUE
    /\ last = NoOp
    /\ arg = NoneV

\* what a __set__ did to the owner
Outcome(before, r) ==
    IF r.raised # "none" THEN "failed"
    ELSE IF Len(r.obj.fields) > Len(before.fields) THEN "created"
    ELSE IF Len(r.obj.fields) < Len(before.fields) THEN "removed"
    ELSE "updated"

\* the declaration object of a decorator line
DeclInit(d) == IF d.form = "EntityLinkField" THEN EntityLinkFieldInit(d.kwargs)
               ELSE EntityFieldInit(d.link, d.kwargs)

\* one decorator of the class body is applied: the declaration is built and
\* called on the class; a declaration that raises ends the class definition
Declare ==
    /\ pc = "define"
    /\ stack # <<>>
    /\ LET d == stack[Len(stack)]
           r == DeclInit(d)
       IN  /\ stack' = SubSeq(stack, 1, Len(stack) - 1)
           /\ IF r.raised = "none"
              THEN /\ cls' = EntityFieldCall(r.self, cls)
                   /\ pc' = pc
                   /\ last' = Op("declare", r.self.property, KwGet(d.kwargs, "name", NoneV),
                                 "none", d.form, <<>>, NoneV)
              ELSE /\ cls' = cls
                   /\ pc' = "aborted"
                   /\ last' = Op("declare", <<>>, KwGet(d.kwargs, "name", NoneV),
                                 r.raised, d.form, <<>>, NoneV)
    /\ UNCHANGED <<obj, nextId, fresh, arg>>

\* Entity(value, fields=fs, labels=ls, **kw)
New ==
    /\ pc = "define"
    /\ stack = <<>>
    /\ \E fs \in InitFields, nl \in 0..1 :
       \E kw \in {<<>>} \cup {<<[p |-> p, val |-> v]>> :
                               p \in DOMAIN cls, v \in Inputs("Integer") \cup Inputs("String")} :
          LET ls == IF nl = 1 THEN <<Label(Len(fs) + 1)>> ELSE <<>>
              r == EntityInit(cls, fs, ls, Len(fs) + nl + 1, kw)
          IN  /\ r.nextId <= MaxNodes + 1
              /\ IF r.raised = "none"
                 THEN pc' = "live" /\ obj' = r.obj /\ nextId' = r.nextId
                 ELSE pc' = "aborted" /\ obj' = obj /\ nextId' = nextId
              /\ fresh' = (fs = <<>>)
              /\ last' = Op("new", IF kw = <<>> THEN <<>> ELSE kw[1].p,
                            IF kw = <<>> THEN NoneV ELSE kw[1].val, r.raised,
                            IF r.raised = "none" THEN "created" ELSE "failed",
                            r.hooks, NoneV)
    /\ UNCHANGED <<stack, cls, arg>>

\* instance.<acc> = val
Set(acc, val) ==
    /\ pc = "live"
    /\ LET r == DescSet(cls[acc], obj, nextId, val)
       IN  /\ r.nextId <= MaxNodes + 1
           /\ obj' = r.obj
           /\ nextId' = r.nextId
           /\ last' = Op("set", acc, val, r.raised, Outcome(obj, r), r.hooks, NoneV)
    /\ UNCHANGED <<pc, stack, cls, fresh, arg>>

\* instance.<acc>
Get(acc) ==
    /\ pc = "live"
    /\ last' = Op("get", acc, NoneV, "none", "none", <<>>, DescGet(cls[acc], obj))
    /\ UNCHANGED <<pc, stack, cls, obj, nextId, fresh, arg>>

\* instance.appendelement(child), child a Field or a Label the caller built,
\* or an object of another kind
AppendOp ==
    /\ pc = "live"
    /\ \/ \E nv \in CallerFields :
             /\ nextId <= MaxNodes
             /\ obj' = appendelement(obj, NewField(nextId, nv))
             /\ nextId' = nextId + 1
             /\ fresh' = FALSE
       \/ /\ nextId <= MaxNodes
          /\ obj' = appendelement(obj, Label(nextId))
          /\ nextId' = nextId + 1
          /\ fresh' = fresh
       \/ /\ obj' = appendelement(obj, [k |-> "UIMessage", id |-> 0])
          /\ UNCHANGED <<nextId, fresh>>
    /\ last' = Op("append", <<>>, NoneV, "none", "none", <<>>, NoneV)
    /\ UNCHANGED <<pc, stack, cls, arg>>

\* instance.removeelement(child), child one of the children or an object
\* that is not among them
RemoveOp ==
    /\ pc = "live"
    /\ \E child \in Range(obj.fields) \cup Range(obj.labels)
                    \cup {NewField(0, <<(<<"s">>), StrV(<<"w">>)>>)} :
          obj' = removeelement(obj, child)
    /\ last' = Op("remove", <<>>, NoneV, "none", "none", <<>>, NoneV)
    /\ UNCHANGED <<pc, stack, cls, nextId, fresh, arg>>

SetOp == \E acc \in DOMAIN cls : \E val \in Inputs(cls[acc].kind) : Set(acc, val)

GetOp == \E acc \in DOMAIN cls : Get(acc)

Next == Declare \/ New \/ SetOp \/ GetOp \/ AppendOp \/ RemoveOp

Spec == Init /\ [][Next]_vars

(***************************************************************************)
(* Codec runs: one value is written through a descriptor to an empty       *)
(* owner and read back, or a text that came over the wire is read          *)
(***************************************************************************)
RECURSIVE ApplyStack(_, _)
\* the class after all the decorators of a class body, none of which raises
ApplyStack(decls, c) ==
    IF decls = <<>> THEN c
    ELSE ApplyStack(SubSeq(decls, 1, Len(decls) - 1),
                    EntityFieldCall(DeclInit(decls[Len(decls)]).self, c))

CodecClass == ApplyStack(ClassNumber \o ClassTime, <<>>)

CodecInts == {IntV(n) : n \in (0 - MaxInt)..MaxInt} \cup {IntV(-120), IntV(1000)}

CodecDates == {DateV(y, md[1], md[2]) :
                 y \in {999, 2020, 2021},
                 md \in {<<1, 1>>, <<2, 28>>, <<12, 31>>}} \cup {LeapDay}

CodecTimes == {<<0, 0, 0>>, <<23, 59, 59>>}

CodecMicros == {0, 5, 5000, 999999}

CodecDateTimes == {DateTimeV(d.y, d.m, d.d, hms[1], hms[2], hms[3], us) :
                     d \in {LeapDay, DateV(2021, 1, 1)}, hms \in CodecTimes, us \in CodecMicros}

CodecSpans == {TimeDelta("timespan", days, secs, us) :
                 days \in 0..MaxDays, secs \in {0, 7384, 86399}, us \in CodecMicros}

\* the values written through the accessor of each kind: values of the
\* kind's own type, and one of a related type
CodecInputs(kind) ==
    CASE kind \in {"Integer", "Long"} -> CodecInts
      [] kind = "Float" -> {FloatV(h) : h \in (0 - MaxInt)..MaxInt}
      [] kind = "Bool" -> {BoolV(TRUE), BoolV(FALSE)}
      [] kind = "Date" -> CodecDates \cup {DateTimeV(2020, 2, 29, 23, 59, 59, 0)}
      [] kind = "DateTime" -> CodecDateTimes
      [] kind = "TimeSpan" -> CodecSpans \cup {TimeDelta("timedelta", 1, 7384, 5000)}
      [] kind = "Color" -> {StrV(<<"#", "1", "a", "2", "b", "3", "c">>)}
      [] kind = "Regex" -> {StrV(<<>>)}

\* the texts read from Fields that came over the wire: (accessor, text)
WireTexts == {<<(<<"t", "s">>), WireSpan>>,
              <<(<<"t", "s">>), <<"1", "d", "2", "h">>>>,
              <<(<<"i">>), <<"-", "1", "2">>>>,
              <<(<<"d", "t">>), <<"2", "0", "2", "0", "-", "0", "2", "-", "2", "9", " ",
                              "0", "0", ":", "0", "0", ":", "0", "0">>>>}

CodecArg(acc, val, wire) == [acc |-> acc, val |-> val, wire |-> wire]

CodecInit ==
    /\ stack = <<>>
    /\ cls = CodecClass
    /\ fresh = TRUE
    /\ last = NoOp
    /\ \/ /\ pc = "codec"
          /\ obj = EmptyObj
          /\ nextId = 1
          /\ \E acc \in DOMAIN CodecClass :
                arg \in {CodecArg(acc, v, FALSE) : v \in CodecInputs(CodecClass[acc].kind)}
       \/ /\ pc = "codec_wire"
          /\ nextId = 2
          /\ \E w \in WireTexts :
                /\ arg = CodecArg(w[1], StrV(w[2]), TRUE)
                /\ obj = appendelement(EmptyObj,
                                       NewField(1, <<CodecClass[w[1]].name, StrV(w[2])>>))

\* instance.<acc> = arg.val
CodecSet ==
    /\ pc = "codec"
    /\ LET r == DescSet(cls[arg.acc], obj, nextId, arg.val)
       IN  /\ obj' = r.obj
           /\ nextId' = r.nextId
           /\ pc' = IF r.raised = "none" THEN "codec_set" ELSE "codec_failed"
           /\ last' = Op("set", arg.acc, arg.val, r.raised, Outcome(obj, r), r.hooks, NoneV)
    /\ UNCHANGED <<stack, cls, fresh, arg>>

\* instance.<acc>
CodecGet ==
    /\ pc \in {"codec_set", "codec_wire"}
    /\ pc' = "codec_done"
    /\ last' = Op("get", arg.acc, NoneV, "none", "none", <<>>, DescGet(cls[arg.acc], obj))
    /\ UNCHANGED <<stack, cls, obj, nextId, fresh, arg>>

CodecNext == CodecSet \/ CodecGet

SpecCodec == CodecInit /\ [][CodecNext]_vars

(***************************************************************************)
(* Properties                                                              *)
(***************************************************************************)
\* no two Fields of the owner have the same name
Unique(o) == \A i, j \in 1..Len(o.fields) : i # j => o.fields[i].name # o.fields[j].name

\* the Field names of the owner, in order
Names(o) == [i \in 1..Len(o.fields) |-> o.fields[i].name]

\* the identities of the owner's Fields, in order
Ids(o) == [i \in 1..Len(o.fields) |-> o.fields[i].id]

\* a present value that the validation of the descriptor's kind must reject
FailsValidation(d, val) ==
    /\ val # NoneV
    /\ CASE d.kind = "Enum" -> PyStr(val) \notin Range(d.choices)
         [] d.kind \in {"Integer", "Long", "Float"} -> val.t \notin {"int", "float", "bool"}
         [] d.kind = "Bool" -> val.t # "bool"
         [] d.kind = "Date" -> val.t \notin {"date", "datetime"}
         [] d.kind = "DateTime" -> val.t # "datetime"
         [] d.kind = "TimeSpan" -> val.t \notin {"timedelta", "timespan"}
         [] d.kind = "Color" -> ~MatchColor(PyStr(val))
         [] OTHER -> FALSE

\* the step is a descriptor __set__ on the live instance
SetStep == pc = "live" /\ last'.op = "set"

\* C1: setting a field of any kind to the absent value returns without an
\* exception, and afterwards get returns absent and no Field has the
\* descriptor's name
C1_AbsenceLaw ==
    (pc = "live" /\ last.op = "set" /\ last.val = NoneV) =>
        /\ last.raised = "none"
        /\ DescGet(cls[last.acc], obj) = NoneV
        /\ \A i \in 1..Len(obj.fields) : obj.fields[i].name # cls[last.acc].name

\* C2: a set whose value fails the validation of the descriptor's kind raises
\* and leaves the owner's children as they were, and calls no decorator
C2_ValidateThenMutate ==
    [][(SetStep /\ FailsValidation(cls[last'.acc], last'.val)) =>
           /\ last'.raised \in {"ValueError", "TypeError"}
           /\ obj' = obj
           /\ last'.hooks = <<>>]_vars

\* a rejected value was given to an Enum accessor whose Field exists
C2_Witness ==
    /\ pc = "live"
    /\ last.op = "set"
    /\ cls[last.acc].kind = "Enum"
    /\ last.raised = "ValueError"
    /\ last.val = StrV(<<"x">>)
    /\ _find(cls[last.acc], obj) # 0

\* C3 as stated: the decorator is called once, with the value the caller
\* passed, after a set that creates or updates the Field, when the Field
\* holds the new text; it is not called by a set that removes the Field or fails
C3_HookTiming ==
    (pc = "live" /\ last.op = "set" /\ cls[last.acc].decorator) =>
        IF last.outcome \in {"created", "updated"}
        THEN /\ Len(last.hooks) = 1
             /\ last.hooks[1].val = last.val
             /\ last.hooks[1].seen = obj
        ELSE last.hooks = <<>>

\* C3 amended: the decorator is called once after every set that returns,
\* removals included, with the text the value was encoded to (absent for a
\* removal), when the owner already holds the change; a set that raises does
\* not call it
C3_HookAfterEveryReturn ==
    (pc = "live" /\ last.op = "set" /\ cls[last.acc].decorator) =>
        IF last.raised = "none"
        THEN /\ Len(last.hooks) = 1
             /\ last.hooks[1].seen = obj
             /\ IF last.outcome = "removed"
                THEN last.val = NoneV /\ last.hooks[1].val = NoneV
                ELSE /\ _find(cls[last.acc], obj) # 0
                     /\ last.hooks[1].val = StrV(obj.fields[_find(cls[last.acc], obj)].text)
        ELSE last.hooks = <<>>

\* the decorator ran after a set that removed the Field
C3_Witness ==
    /\ pc = "live"
    /\ last.op = "set"
    /\ cls[last.acc].decorator
    /\ last.outcome = "removed"
    /\ Len(last.hooks) = 1

\* C4 as stated: in every state of a constructed instance no two Fields have
\* the same name
C4_UniqueBackingNode == pc = "live" => Unique(obj)

\* the step adds Fields the caller built: Entity.append, or the constructor
\* with a fields keyword
AddsCallerFields == last'.op = "append" \/ (last'.op = "new" /\ ~fresh')

\* C4 amended: construction without a fields keyword, descriptor sets, reads
\* and Entity.remove never make two Fields of one name; only Fields the
\* caller appends can repeat a name
C4_SetKeepsUnique == [][(Unique(obj) /\ ~AddsCallerFields) => Unique(obj')]_vars

\* a set through an accessor updated the Field the caller had appended
\* under that name, instead of adding a second one
C4_Witness ==
    /\ pc = "live"
    /\ ~fresh
    /\ last.op = "set"
    /\ last.outcome = "updated"
    /\ Unique(obj)
    /\ Len(obj.fields) = 2

\* C5: a set of a present valid value on an existing Field keeps the Field
\* and every other child where it is and changes its text only; setting the
\* same value again changes nothing
C5_InPlaceReset ==
    [][(SetStep /\ last'.raised = "none" /\ last'.val # NoneV) =>
           LET d == cls[last'.acc]
               f == _find(d, obj)
               again == DescSet(d, obj', nextId', last'.val)
           IN  /\ f # 0 =>
                     /\ Len(obj'.fields) = Len(obj.fields)
                     /\ \A i \in 1..Len(obj.fields) : i # f => obj'.fields[i] = obj.fields[i]
                     /\ obj'.fields[f] = [obj.fields[f] EXCEPT !.text = obj'.fields[f].text]
                     /\ obj'.labels = obj.labels
               /\ again.raised = "none"
               /\ again.obj = obj']_vars

\* the first of two Fields was updated
C5_Witness ==
    /\ pc = "live"
    /\ last.op = "set"
    /\ last.outcome = "updated"
    /\ Len(obj.fields) = 2
    /\ _find(cls[last.acc], obj) = 1

\* C6: on an instance whose Fields all come from sets, the Fields are in the
\* order of their creation; a set that creates a Field puts it last, a set
\* that updates one moves nothing, and a declaration leaves every other
\* accessor of the class as it was
C6_WireOrder ==
    /\ []((pc = "live" /\ fresh) =>
              \A i, j \in 1..Len(obj.fields) : i < j => obj.fields[i].id < obj.fields[j].id)
    /\ [][(SetStep /\ last'.outcome = "created") =>
              /\ Len(obj'.fields) = Len(obj.fields) + 1
              /\ SubSeq(obj'.fields, 1, Len(obj.fields)) = obj.fields
              /\ obj'.fields[Len(obj'.fields)].name = cls[last'.acc].name
              /\ obj'.fields[Len(obj'.fields)].id = nextId]_vars
    /\ [][(SetStep /\ last'.outcome = "updated") =>
              (Ids(obj') = Ids(obj) /\ Names(obj') = Names(obj))]_vars
    /\ [][(pc = "define" /\ last'.op = "declare" /\ last'.raised = "none") =>
              \A p \in DOMAIN cls :
                  p # last'.acc => (p \in DOMAIN cls' /\ cls'[p] = cls[p])]_vars

\* two Fields were created by sets, and the first was then updated
C6_Witness ==
    /\ pc = "live"
    /\ fresh
    /\ Len(obj.fields) = 2
    /\ last.op = "set"
    /\ last.outcome = "updated"
    /\ _find(cls[last.acc], obj) = 1

\* the kinds C7 is about, and the values of each kind's own type
OwnType(kind, v) ==
    CASE kind \in {"Integer", "Long"} -> v.t = "int"
      [] kind = "Bool" -> v.t = "bool"
      [] kind = "Date" -> v.t = "date"
      [] kind = "TimeSpan" -> v.t = "timespan" /\ v.days >= 0
      [] OTHER -> FALSE

\* C7: for the kinds Integer, Long, Boolean, Date and Duration, a value of
\* the kind's own type that is set is accepted, and get returns a value
\* equal to it
C7_RoundTrip ==
    (pc \in {"codec", "codec_set", "codec_failed", "codec_done"}
     /\ OwnType(cls[arg.acc].kind, arg.val)) =>
        /\ pc # "codec_failed"
        /\ pc = "codec_done" => last.result = arg.val

\* the largest sub-day duration was written and read back
C7_Witness ==
    /\ pc = "codec_done"
    /\ cls[arg.acc].kind = "TimeSpan"
    /\ arg.val = TimeDelta("timespan", 0, 86399, 999999)
    /\ last.result = arg.val

\* the text of the one Field of the codec run's owner
CodecText == obj.fields[1].text

\* C8: a duration is written as <days>d <hours>h<minutes>m<seconds>.<fraction>s
\* with a fraction of 3 digits; 1 day 2 h 3 min 4 s 5000 microseconds is
\* written "1d 2h3m4.005s", and that text is read as 1 day + 7384 s + 5000
\* microseconds
C8_DurationWireFormat ==
    /\ (pc = "codec_set" /\ cls[arg.acc].kind = "TimeSpan") =>
           LET m == MatchPat(CodecText, 1, matcher, <<>>)
           IN  /\ m.ok
               /\ m.end = Len(CodecText) + 1
               /\ DigitsVal(m.groups[2]) <= 23
               /\ DigitsVal(m.groups[3]) <= 59
               /\ DigitsVal(m.groups[4]) <= 59
               /\ Len(m.groups[5]) = 3
    /\ (pc = "codec_set" /\ arg.val = TimeDelta("timespan", 1, 7384, 5000)) =>
           CodecText = WireSpan
    /\ (pc = "codec_done" /\ arg.wire /\ arg.val = StrV(WireSpan)) =>
           last.result = TimeDelta("timespan", 1, 7384, 5000)

\* 'YYYY-MM-DD HH:MM:SS.ffffff'
SixDigitPattern ==
    <<Num(4, 4), Lit(<<"-">>), Num(2, 2), Lit(<<"-">>), Num(2, 2), Lit(<<" ">>),
      Num(2, 2), Lit(<<":">>), Num(2, 2), Lit(<<":">>), Num(2, 2), Lit(<<".">>), Num(6, 6)>>

\* C9: a date-time that is set is stored as YYYY-MM-DD HH:MM:SS.ffffff with
\* 6 fractional digits, also when its microsecond is 0, and get returns it
C9_DateTimeWireFormat ==
    (~arg.wire /\ cls[arg.acc].kind = "DateTime" /\ arg.val.t = "datetime") =>
        /\ pc # "codec_failed"
        /\ pc \in {"codec_set", "codec_done"} =>
               LET m == MatchPat(CodecText, 1, SixDigitPattern, <<>>)
               IN  m.ok /\ m.end = Len(CodecText) + 1
        /\ pc = "codec_done" => last.result = arg.val

\* C10: a declaration without a name raises, in both declaration forms, and
\* no accessor of the class has a name made from an absent name
C10_RequiredName ==
    /\ (last.op = "declare" /\ last.val = NoneV) => last.raised # "none"
    /\ \A p \in DOMAIN cls : cls[p].name # <<"l", "i", "n", "k", "#", "N", "o", "n", "e">>

====
